---- MODULE Spec2Model ----
(***************************************************************************)
(* A model of xmt (dalloriam/xmt): the formatter core (src/src/xmt.rs),    *)
(* its configuration (src/src/config.rs), the mutex-guarded global         *)
(* instance (src/src/global.rs) and the forwarding macros                  *)
(* (src/src/macros.rs).                                                    *)
(*                                                                         *)
(* A Rust String is a sequence of one-character strings.  A write to a     *)
(* standard stream is a record                                             *)
(*   [stream, render, text, color, nl]                                     *)
(* where render is "line" for text composed by the formatter and the name  *)
(* of the serializer for a value emitted by out(); color is the colour     *)
(* handed to the colouring primitive ("none": the text is written as is);  *)
(* nl tells whether a line terminator follows.  Option<T> is a sequence of *)
(* at most one element.                                                    *)
(***************************************************************************)
EXTENDS Integers, Sequences, FiniteSets, TLC

VARIABLES env, instance, lock, frames, pc, scope, fmt, last

vars == <<env, instance, lock, frames, pc, scope, fmt, last>>

gvars == <<instance, lock, frames, pc, scope>>

----------------------------------------------------------------------------
(* Bounds of the model.                                                    *)

\* deepest indent_level a formatter reaches
MaxIndent == 2
\* most global nest() calls a thread has open at once
MaxDepth == 2
\* most lines of standard input handed to one interactive call
MaxInput == 2
\* most items handed to pick()
MaxItems == 2

----------------------------------------------------------------------------
(* Strings.                                                                *)

None == << >>

Some(x) == <<x>>

\* The characters str::trim strips: those of the Unicode property White_Space
\* (char::is_whitespace).  U+0009 to U+000D, U+0020, U+0085 and U+00A0 are
\* written as themselves; a string of a module cannot hold a character above
\* U+00FF, so each of the others is written as its code point.
Whitespace ==
    {"\t", "\n", "", "\f", "\r", " ", "", " ",
     "U+1680", "U+2000", "U+2001", "U+2002", "U+2003", "U+2004",
     "U+2005", "U+2006", "U+2007", "U+2008", "U+2009", "U+200A",
     "U+2028", "U+2029", "U+202F", "U+205F", "U+3000"}

RECURSIVE trim_start(_)
trim_start(s) ==
    IF s # << >> /\ Head(s) \in Whitespace THEN trim_start(Tail(s)) ELSE s

RECURSIVE trim_end(_)
trim_end(s) ==
    IF s # << >> /\ s[Len(s)] \in Whitespace
    THEN trim_end(SubSeq(s, 1, Len(s) - 1))
    ELSE s

trim(s) == trim_end(trim_start(s))

UpperCase == <<"A", "B", "C", "D", "E", "F", "G", "H", "I", "J", "K", "L", "M",
               "N", "O", "P", "Q", "R", "S", "T", "U", "V", "W", "X", "Y", "Z">>

LowerCase == <<"a", "b", "c", "d", "e", "f", "g", "h", "i", "j", "k", "l", "m",
               "n", "o", "p", "q", "r", "s", "t", "u", "v", "w", "x", "y", "z">>

to_ascii_lowercase(s) ==
    [i \in 1..Len(s) |->
        IF \E j \in 1..Len(UpperCase) : UpperCase[j] = s[i]
        THEN LowerCase[CHOOSE j \in 1..Len(UpperCase) : UpperCase[j] = s[i]]
        ELSE s[i]]

Digits == <<"0", "1", "2", "3", "4", "5", "6", "7", "8", "9">>

IsDigit(c) == \E j \in 1..Len(Digits) : Digits[j] = c

DigitVal(c) == (CHOOSE j \in 1..Len(Digits) : Digits[j] = c) - 1

RECURSIVE DigitsValue(_, _)
DigitsValue(s, acc) ==
    IF s = << >> THEN acc ELSE DigitsValue(Tail(s), acc * 10 + DigitVal(Head(s)))

\* str::parse::<usize>(): Some(n), or None for the Err the code matches with
\* Err(_).  A leading "+" is accepted, a "-" is not; the strings of the model
\* are too short to overflow a usize.
parse_usize(s) ==
    LET body == IF s # << >> /\ Head(s) = "+" THEN Tail(s) ELSE s
    IN  IF body = << >> \/ \E i \in 1..Len(body) : ~IsDigit(body[i])
        THEN None
        ELSE Some(DigitsValue(body, 0))

\* Display of a usize, as format!("{}", n) writes it.
RECURSIVE usize_to_string(_)
usize_to_string(n) ==
    IF n < 10 THEN <<Digits[n + 1]>>
    ELSE usize_to_string(n \div 10) \o <<Digits[(n % 10) + 1]>>

\* io::stdin().read_line(): the next line with its terminator, or the empty
\* string at the end of the input.
read_line(stdin) == IF stdin = << >> THEN << >> ELSE Head(stdin) \o <<"\n">>

----------------------------------------------------------------------------
(* config.rs                                                               *)

Level == {"Normal", "Prompt", "Success", "Detail", "Warn", "Error"}

OutputMode == {"Text", "Tree", "JSON"}

Style_new(color) == [prefix |-> None, color |-> color]

with_prefix(style, prefix) == [style EXCEPT !.prefix = Some(prefix)]

\* HashMap<Level, Style>: a level without an entry maps to None.
EmptyTheme == [l \in Level |-> None]

Config_default == [output |-> "Text", theme |-> EmptyTheme]

with_style(cfg, level, style) == [cfg EXCEPT !.theme[level] = Some(style)]

with_json_output(cfg) == [cfg EXCEPT !.output = "JSON"]

with_tree_output(cfg) == [cfg EXCEPT !.output = "Tree"]

----------------------------------------------------------------------------
(* xmt.rs: the formatter core.                                             *)

DEFAULT_PRINT_STYLE == [prefix |-> Some(<<"+">>), color |-> "White"]

DEFAULT_PROMPT_STYLE == [prefix |-> Some(<<"+">>), color |-> "White"]

\* The prefix is the one character U+2714 (a check mark), written "v" here.
DEFAULT_SUCCESS_STYLE == [prefix |-> Some(<<"v">>), color |-> "Green"]

DEFAULT_WARN_STYLE == [prefix |-> Some(<<"!">>), color |-> "Yellow"]

DEFAULT_ERR_STYLE == [prefix |-> Some(<<"!">>), color |-> "Red"]

\* atty::is(Stream::Stdout), atty::is(Stream::Stderr): what the process is
\* attached to, probed when a formatter is constructed.
XMT_default(e) ==
    [cfg |-> Config_default, indent_level |-> 0,
     stdout_tty |-> e.stdout_tty, stderr_tty |-> e.stderr_tty]

XMT_new(cfg, e) == [XMT_default(e) EXCEPT !.cfg = cfg]

IndentMarker == <<"|", " ", " ", " ">>

RECURSIVE Repeat(_, _)
Repeat(s, n) == IF n <= 0 THEN << >> ELSE s \o Repeat(s, n - 1)

\* make_padding with the loop run one time too few.
make_padding_OneShort(self) ==
    IF self.indent_level > 0 THEN Repeat(IndentMarker, self.indent_level - 1)
    ELSE << >>

make_padding(self) ==
    IF self.indent_level > 0 THEN Repeat(IndentMarker, self.indent_level)
    ELSE << >>

is_json_output(self) == self.cfg.output = "JSON"

\* format!("{padding}{mkr} {msg}") or format!("{padding} {msg}")
format_line(padding, prefix_marker, msg) ==
    IF prefix_marker # None
    THEN padding \o prefix_marker[1] \o <<" ">> \o msg
    ELSE padding \o <<" ">> \o msg

Write(stream, text, color, nl) ==
    [stream |-> stream, render |-> "line", text |-> text, color |-> color,
     nl |-> nl]

print_sameline(self, msg, prefix_marker, color) ==
    IF is_json_output(self) THEN << >>
    ELSE IF self.stdout_tty
    THEN <<Write("stdout", format_line(make_padding(self), prefix_marker, msg),
                 color, FALSE)>>
    ELSE <<Write("stdout", msg, "none", FALSE)>>

print_stdout(self, msg, prefix_marker, color) ==
    IF is_json_output(self) THEN << >>
    ELSE IF self.stdout_tty
    THEN <<Write("stdout", format_line(make_padding(self), prefix_marker, msg),
                 color, TRUE)>>
    ELSE <<Write("stdout", msg, "none", TRUE)>>

\* print_stderr without its early return in JSON mode.
print_stderr_NoJsonReturn(self, msg, prefix_marker, color) ==
    IF self.stderr_tty
    THEN <<Write("stderr", format_line(make_padding(self), prefix_marker, msg),
                 color, TRUE)>>
    ELSE <<Write("stderr", msg, "none", TRUE)>>

print_stderr(self, msg, prefix_marker, color) ==
    IF is_json_output(self) THEN << >>
    ELSE IF self.stderr_tty
    THEN <<Write("stderr", format_line(make_padding(self), prefix_marker, msg),
                 color, TRUE)>>
    ELSE <<Write("stderr", msg, "none", TRUE)>>

\* self.cfg.theme.get(&level).unwrap_or(&default)
style_of(self, level, default) ==
    IF self.cfg.theme[level] # None THEN self.cfg.theme[level][1] ELSE default

print(self, msg) ==
    LET style == style_of(self, "Normal", DEFAULT_PRINT_STYLE)
    IN  print_stdout(self, msg, style.prefix, style.color)

detail(self, msg) ==
    LET style == style_of(self, "Detail", DEFAULT_PRINT_STYLE)
    IN  IF is_json_output(self) \/ ~self.stdout_tty THEN << >>
        ELSE <<Write("stdout",
                     format_line(make_padding(self), style.prefix, msg),
                     style.color, TRUE)>>

success(self, msg) ==
    LET style == style_of(self, "Success", DEFAULT_SUCCESS_STYLE)
    IN  print_stdout(self, msg, style.prefix, style.color)

warn(self, msg) ==
    LET style == style_of(self, "Warn", DEFAULT_WARN_STYLE)
    IN  print_stdout(self, msg, style.prefix, style.color)

error(self, msg) ==
    LET style == style_of(self, "Error", DEFAULT_ERR_STYLE)
    IN  print_stderr(self, msg, style.prefix, style.color)

\* out() matching on the configured mode before looking at the terminal.
out_render_ModeFirst(self) ==
    CASE self.cfg.output = "Tree" -> "tree"
      [] self.cfg.output = "Text" -> "display"
      [] OTHER -> IF self.stdout_tty THEN "json_pretty" ELSE "json_compact"

\* The serializer or formatter out() hands the value to; "unreachable" is the
\* unreachable!() arm of the match.
out_render(self) ==
    IF is_json_output(self) \/ ~self.stdout_tty
    THEN IF self.stdout_tty THEN "json_pretty" ELSE "json_compact"
    ELSE CASE self.cfg.output = "Tree" -> "tree"
           [] self.cfg.output = "Text" -> "display"
           [] OTHER -> "unreachable"

\* out(obj): one write of the value's rendering to stdout, or a panic.
out(self, obj) ==
    IF out_render(self) = "unreachable"
    THEN [kind |-> "panic", writes |-> << >>]
    ELSE [kind |-> "ok",
          writes |-> <<[stream |-> "stdout", render |-> out_render(self),
                        text |-> obj, color |-> "none", nl |-> TRUE]>>]

XMT_nest(self) == [self EXCEPT !.indent_level = self.indent_level + 1]

----------------------------------------------------------------------------
(* xmt.rs: the interactive operations.  stdin is the sequence of lines the  *)
(* process will be given, then the end of the input.  A result is           *)
(*   [kind, value, writes, reads]                                           *)
(* kind "ok" (value: what Ok holds), "unsupported" (the io::Error of kind   *)
(* Unsupported), "panic" or "diverges" (the call never returns); writes are *)
(* the writes made, reads the number of read_line calls.  Failures of       *)
(* flush and read_line themselves are not modelled.                         *)

Unsupported ==
    [kind |-> "unsupported", value |-> None, writes |-> << >>, reads |-> 0]

YesDefaultSuffix == <<" ", "[", "Y", "/", "n", "]", " ", "-", " ">>

NoDefaultSuffix == <<" ", "[", "y", "/", "N", "]", " ", "-", " ">>

prompt_yn(self, msg, default, stdin) ==
    IF ~self.stdout_tty THEN Unsupported
    ELSE
        LET style == style_of(self, "Prompt", DEFAULT_PROMPT_STYLE)
            shown == IF default THEN msg \o YesDefaultSuffix
                     ELSE msg \o NoDefaultSuffix
            user_pick == to_ascii_lowercase(trim(read_line(stdin)))
        IN  [kind |-> "ok",
             value |-> IF default THEN user_pick # <<"n">>
                       ELSE user_pick = <<"y">>,
             writes |-> print_sameline(self, shown, style.prefix, style.color),
             reads |-> 1]

prompt(self, msg, stdin) ==
    IF ~self.stdout_tty THEN Unsupported
    ELSE
        LET style == style_of(self, "Prompt", DEFAULT_PROMPT_STYLE)
        IN  [kind |-> "ok",
             value |-> trim(read_line(stdin)),
             writes |-> print_sameline(self, msg, style.prefix, style.color),
             reads |-> 1]

EnterYourPick == <<"E", "n", "t", "e", "r", " ", "y", "o", "u", "r", " ",
                   "p", "i", "c", "k", ":", " ">>

OutOfBoundsMsg == <<"p", "i", "c", "k", " ", "i", "s", " ", "o", "u", "t", " ",
                    "o", "f", " ", "b", "o", "u", "n", "d", "s">>

NotAnIntegerMsg == <<"p", "i", "c", "k", " ", "m", "u", "s", "t", " ", "b", "e",
                     " ", "a", " ", "p", "o", "s", "i", "t", "i", "v", "e", " ",
                     "i", "n", "t", "e", "g", "e", "r">>

\* format!("[{}] - {}", i + 1, itm)
item_line(i, itm) ==
    <<"[">> \o usize_to_string(i) \o <<"]", " ", "-", " ">> \o itm

RECURSIVE print_items(_, _, _)
print_items(self, items, i) ==
    IF i > Len(items) THEN << >>
    ELSE print(self, item_line(i, items[i])) \o print_items(self, items, i + 1)

\* The loop of pick(): writes and reads are those made so far.  `idx - 1` on
\* a pick of 0 underflows a usize: a panic where overflow checks are compiled
\* in (overflow_checks), and usize::MAX, which no slice length reaches,
\* where they are not.  At the end of the input every further prompt reads
\* the empty string, which does not parse: the loop never ends.
RECURSIVE pick_loop(_, _, _, _, _, _)
pick_loop(self, items, stdin, overflow_checks, writes, reads) ==
    LET r == prompt(self, EnterYourPick, stdin)
        w == writes \o r.writes
        n == reads + r.reads
        parsed == parse_usize(r.value)
    IN  IF r.kind # "ok"
        THEN [kind |-> r.kind, value |-> None, writes |-> w, reads |-> n]
        ELSE IF parsed # None
        THEN IF parsed[1] = 0 /\ overflow_checks
             THEN [kind |-> "panic", value |-> None, writes |-> w, reads |-> n]
             ELSE IF parsed[1] = 0 \/ parsed[1] - 1 >= Len(items)
             THEN pick_loop(self, items, Tail(stdin), overflow_checks,
                            w \o error(self, OutOfBoundsMsg), n)
             ELSE [kind |-> "ok", value |-> items[parsed[1]], writes |-> w,
                   reads |-> n]
        ELSE IF stdin = << >>
             THEN [kind |-> "diverges", value |-> None,
                   writes |-> w \o error(self, NotAnIntegerMsg), reads |-> n]
             ELSE pick_loop(self, items, Tail(stdin), overflow_checks,
                            w \o error(self, NotAnIntegerMsg), n)

XMT_pick(self, msg, items, stdin, overflow_checks) ==
    IF self.stdout_tty THEN Unsupported
    ELSE pick_loop(self, items, stdin, overflow_checks,
                   print(self, msg) \o print_items(self, items, 1), 0)

----------------------------------------------------------------------------
(* Inputs of the operations.                                               *)

Styles == {Style_new("Blue"), with_prefix(Style_new("Cyan"), <<">", ">">>)}

Themes ==
    {EmptyTheme} \cup
    {[l \in Level |-> Some(st)] : st \in Styles} \cup
    {with_style(Config_default, "Error", st).theme : st \in Styles}

Configs ==
    UNION {{[Config_default EXCEPT !.theme = th],
            with_json_output([Config_default EXCEPT !.theme = th]),
            with_tree_output([Config_default EXCEPT !.theme = th])} :
           th \in Themes}

\* The configurations handed to the global init().
InitConfigs ==
    {Config_default, with_json_output(Config_default),
     with_style(Config_default, "Normal", Style_new("Blue"))}

Msgs == {<<"h", "i">>, <<"o", "k">>}

Header == <<"H">>

Lines == {<<"2">>, <<"0">>, <<"5">>, <<"x">>, <<"n">>, <<"\f", "Y", " ">>}

PickLines == {<<"2">>, <<"0">>, <<"5">>, <<"x">>}

RECURSIVE SeqsUpTo(_, _)
SeqsUpTo(S, n) ==
    IF n = 0 THEN {<< >>}
    ELSE LET shorter == SeqsUpTo(S, n - 1)
         IN  shorter \cup {<<x>> \o q : x \in S, q \in shorter}

\* One line, or the end of the input.
OneLine == SeqsUpTo(Lines, 1)

Stdins == SeqsUpTo(PickLines, MaxInput)

AllItems == <<<<"a">>, <<"b">>, <<"c">>, <<"d">>>>

ItemLists == {SubSeq(AllItems, 1, n) : n \in 0..MaxItems}

LeveledOps == {"print", "detail", "success", "warn", "error"}

leveled(op, self, msg) ==
    CASE op = "print" -> print(self, msg)
      [] op = "detail" -> detail(self, msg)
      [] op = "success" -> success(self, msg)
      [] op = "warn" -> warn(self, msg)
      [] op = "error" -> error(self, msg)

Wrote(writes) ==
    [kind |-> "ok", value |-> None, writes |-> writes, reads |-> 0]

NoArg ==
    [default |-> FALSE, items |-> << >>, stdin |-> << >>,
     overflow_checks |-> FALSE, init |-> None]

\* The record of the latest call: the operation, the calling thread (0: the
\* owner of fmt), the formatter it ran on, the indent_level of the shared
\* instance when the call began, its arguments and what it did.
Call(op, t, self, pre, msg, arg, res) ==
    [op |-> op, t |-> t, self |-> self, pre |-> pre, msg |-> msg, arg |-> arg,
     res |-> res]

----------------------------------------------------------------------------
(* The state.                                                              *)
(*   env       what stdout and stderr are attached to                      *)
(*   instance  INSTANCE of global.rs: the formatter inside the mutex       *)
(*             (get_instance() creates XMT::default() on first use)        *)
(*   lock      the thread holding the mutex, Free when none does           *)
(*   frames    per thread, the `orig` of each of its open nest() calls,    *)
(*             outermost first, with the formatter and the indent_level    *)
(*             the mutex held when the call began                          *)
(*   pc        per thread, where it is: running, or blocked in read_line   *)
(*   scope     history: the indent_level of the instance when no nest()    *)
(*             call was open, and whether an init or an unwinding body     *)
(*             has happened since a call was opened                        *)
(*   fmt       a formatter owned by its caller                             *)
(*   last      history: the latest call                                    *)

\* The threads that call the global functions and macros.
Threads == {1, 2}

Free == 0

Running == [at |-> "run", msg |-> << >>]

Quiescent == \A t \in Threads : frames[t] = << >>

Init ==
    /\ env \in [stdout_tty : BOOLEAN, stderr_tty : BOOLEAN]
    /\ instance = XMT_default(env)
    /\ lock = Free
    /\ frames = [t \in Threads |-> << >>]
    /\ pc = [t \in Threads |-> Running]
    /\ scope = [d |-> 0, clean |-> TRUE]
    /\ fmt = XMT_default(env)
    /\ last = Call("none", 0, XMT_default(env), 0, << >>, NoArg, Wrote(<< >>))

----------------------------------------------------------------------------
(* A formatter owned by its caller: XMT::new and the methods of XMT.       *)

FmtNew(cfg) ==
    /\ fmt' = XMT_new(cfg, env)
    /\ last' = Call("new", 0, fmt', 0, << >>, NoArg, Wrote(<< >>))
    /\ UNCHANGED <<env, gvars>>

FmtNest ==
    /\ fmt.indent_level < MaxIndent
    /\ fmt' = XMT_nest(fmt)
    /\ last' = Call("nest", 0, fmt, 0, << >>, NoArg, Wrote(<< >>))
    /\ UNCHANGED <<env, gvars>>

FmtLeveled(op, msg) ==
    /\ last' = Call(op, 0, fmt, 0, msg, NoArg, Wrote(leveled(op, fmt, msg)))
    /\ UNCHANGED <<env, gvars, fmt>>

FmtOut(obj) ==
    /\ last' = Call("out", 0, fmt, 0, obj, NoArg,
                    [kind |-> out(fmt, obj).kind, value |-> None,
                     writes |-> out(fmt, obj).writes, reads |-> 0])
    /\ UNCHANGED <<env, gvars, fmt>>

FmtPromptYn(msg, default, stdin) ==
    /\ last' = Call("prompt_yn", 0, fmt, 0, msg,
                    [NoArg EXCEPT !.default = default, !.stdin = stdin],
                    prompt_yn(fmt, msg, default, stdin))
    /\ UNCHANGED <<env, gvars, fmt>>

FmtPrompt(msg, stdin) ==
    /\ last' = Call("prompt", 0, fmt, 0, msg, [NoArg EXCEPT !.stdin = stdin],
                    prompt(fmt, msg, stdin))
    /\ UNCHANGED <<env, gvars, fmt>>

FmtPick(msg, items, stdin, overflow_checks) ==
    /\ last' = Call("pick", 0, fmt, 0, msg,
                    [NoArg EXCEPT !.items = items, !.stdin = stdin,
                                  !.overflow_checks = overflow_checks],
                    XMT_pick(fmt, msg, items, stdin, overflow_checks))
    /\ UNCHANGED <<env, gvars, fmt>>

NextFmt ==
    \/ \E cfg \in Configs : FmtNew(cfg)
    \/ FmtNest
    \/ \E op \in LeveledOps, msg \in Msgs : FmtLeveled(op, msg)
    \/ \E obj \in Msgs : FmtOut(obj)

\* The leveled operations, out() and nest() of a caller-owned formatter.
SpecFmt == Init /\ [][NextFmt]_vars

NextPrompt ==
    \/ \E cfg \in Configs : FmtNew(cfg)
    \/ FmtNest
    \/ \E default \in BOOLEAN, stdin \in OneLine :
          FmtPromptYn(Header, default, stdin)
    \/ \E stdin \in OneLine : FmtPrompt(Header, stdin)
    \/ \E items \in ItemLists, stdin \in Stdins, oc \in BOOLEAN :
          FmtPick(Header, items, stdin, oc)

\* The interactive operations of a caller-owned formatter.
SpecPrompt == Init /\ [][NextPrompt]_vars

----------------------------------------------------------------------------
(* The global instance: global.rs and the macros of macros.rs.  A call     *)
(* that takes the mutex, runs and releases it without blocking is one      *)
(* step; it waits while another thread holds the mutex.                    *)

OpenCalls == Len(frames[1]) + Len(frames[2])

\* print!, detail!, success!, warn!, error!
macro_leveled(t, op, msg) ==
    /\ pc[t].at = "run"
    /\ lock = Free
    /\ last' = Call(op, t, instance, instance.indent_level, msg, NoArg,
                    Wrote(leveled(op, instance, msg)))
    /\ UNCHANGED <<env, gvars, fmt>>

\* out!
macro_out(t, obj) ==
    /\ pc[t].at = "run"
    /\ lock = Free
    /\ last' = Call("out", t, instance, instance.indent_level, obj, NoArg,
                    [kind |-> out(instance, obj).kind, value |-> None,
                     writes |-> out(instance, obj).writes, reads |-> 0])
    /\ UNCHANGED <<env, gvars, fmt>>

\* prompt! and prompt_yn! up to read_line: the guard of lock() lives until
\* the end of the statement, so the mutex is held while the method runs.  Off
\* a terminal the method returns at once.
macro_prompt(t, op, msg) ==
    /\ pc[t].at = "run"
    /\ lock = Free
    /\ \/ /\ ~instance.stdout_tty
          /\ last' = Call(op, t, instance, instance.indent_level, msg, NoArg,
                          IF op = "prompt" THEN prompt(instance, msg, << >>)
                          ELSE prompt_yn(instance, msg, FALSE, << >>))
          /\ UNCHANGED <<lock, pc>>
       \/ /\ instance.stdout_tty
          /\ lock' = t
          /\ pc' = [pc EXCEPT ![t] = [at |-> op, msg |-> msg]]
          /\ last' = Call("read_line", t, instance, instance.indent_level,
                          msg, NoArg, Wrote(<< >>))
    /\ UNCHANGED <<env, instance, frames, scope, fmt>>

\* prompt! and prompt_yn! from read_line on: the line arrives, the method
\* returns and the guard is dropped.
macro_prompt_read(t, stdin) ==
    /\ pc[t].at \in {"prompt", "prompt_yn"}
    /\ last' = Call(pc[t].at, t, instance, instance.indent_level, pc[t].msg,
                    [NoArg EXCEPT !.stdin = stdin],
                    IF pc[t].at = "prompt"
                    THEN prompt(instance, pc[t].msg, stdin)
                    ELSE prompt_yn(instance, pc[t].msg, FALSE, stdin))
    /\ lock' = Free
    /\ pc' = [pc EXCEPT ![t] = Running]
    /\ UNCHANGED <<env, instance, frames, scope, fmt>>

\* global pick(): the method runs under the mutex.
pick(t, msg, items, stdin, overflow_checks) ==
    /\ pc[t].at = "run"
    /\ lock = Free
    /\ last' = Call("pick", t, instance, instance.indent_level, msg,
                    [NoArg EXCEPT !.items = items, !.stdin = stdin,
                                  !.overflow_checks = overflow_checks],
                    XMT_pick(instance, msg, items, stdin, overflow_checks))
    /\ UNCHANGED <<env, gvars, fmt>>

init(t, cfg) ==
    /\ pc[t].at = "run"
    /\ lock = Free
    /\ instance' = XMT_new(cfg, env)
    /\ scope' = IF Quiescent
                THEN [d |-> instance'.indent_level, clean |-> TRUE]
                ELSE [scope EXCEPT !.clean = FALSE]
    /\ last' = Call("init", t, instance', instance.indent_level, << >>, NoArg,
                    Wrote(<< >>))
    /\ UNCHANGED <<env, lock, frames, pc, fmt>>

\* The first critical section of nest() keeping the nested copy as `orig`.
nest_swap_KeepsNested(inst, message) ==
    [orig |-> XMT_nest(inst), writes |-> print(inst, message),
     nested |-> XMT_nest(inst)]

\* The first critical section of nest(): the clone kept as `orig`, the header
\* it prints, and the nested copy put in the mutex.
nest_swap(inst, message) ==
    [orig |-> inst, writes |-> print(inst, message), nested |-> XMT_nest(inst)]

\* The holder of the mutex at the call of func, had the guard of the first
\* critical section been bound in the body of nest() and not in the block.
nest_guard_KeptForBody(t) == t

\* The holder of the mutex when the block of the first critical section has
\* ended: `guard` is a local of the block and is dropped at its closing brace,
\* before func is called.
nest_guard(t) == Free

\* nest() up to the call of func.
nest_enter(t, message) ==
    /\ pc[t].at = "run"
    /\ lock = Free
    /\ OpenCalls < MaxDepth
    /\ instance.indent_level < MaxIndent
    /\ instance' = nest_swap(instance, message).nested
    /\ frames' = [frames EXCEPT ![t] =
                      Append(@, [orig |-> nest_swap(instance, message).orig,
                                 pre |-> instance.indent_level,
                                 entry |-> instance])]
    /\ scope' = IF Quiescent
                THEN [d |-> instance.indent_level, clean |-> TRUE]
                ELSE scope
    /\ last' = Call("nest", t, instance, instance.indent_level, message, NoArg,
                    Wrote(nest_swap(instance, message).writes))
    /\ lock' = nest_guard(t)
    /\ UNCHANGED <<env, pc, fmt>>

\* The second critical section of nest() as a restore of the level alone,
\* which leaves in place whatever else was installed since.
nest_restore_IndentOnly(current, orig) ==
    [current EXCEPT !.indent_level = orig.indent_level]

\* The second critical section of nest(): the value put in the mutex, given
\* the value found there and the clone kept as `orig`.
nest_restore(current, orig) == orig

\* nest() after func has returned: the second critical section.  The record
\* of the call holds the formatter the mutex held when nest() began and, when
\* the call before the restore was an init(), who made it and what it
\* installed.
nest_return(t) ==
    /\ pc[t].at = "run"
    /\ lock = Free
    /\ frames[t] # << >>
    /\ instance' = nest_restore(instance, frames[t][Len(frames[t])].orig)
    /\ frames' = [frames EXCEPT ![t] = SubSeq(@, 1, Len(@) - 1)]
    /\ last' = Call("nest_return", t, frames[t][Len(frames[t])].entry,
                    frames[t][Len(frames[t])].pre, << >>,
                    [NoArg EXCEPT !.init =
                        IF last.op = "init"
                        THEN Some([by |-> last.t, xmt |-> last.self])
                        ELSE None],
                    Wrote(<< >>))
    /\ UNCHANGED <<env, lock, pc, scope, fmt>>

\* func panics: the unwinding leaves nest() at the call of func, and the
\* second critical section is not run.  (The panic is caught further up, or
\* ends a thread whose place another takes.)
nest_unwind(t) ==
    /\ pc[t].at = "run"
    /\ frames[t] # << >>
    /\ frames' = [frames EXCEPT ![t] = SubSeq(@, 1, Len(@) - 1)]
    /\ scope' = [scope EXCEPT !.clean = FALSE]
    /\ last' = Call("nest_unwind", t, frames[t][Len(frames[t])].orig,
                    frames[t][Len(frames[t])].pre, << >>, NoArg, Wrote(<< >>))
    /\ UNCHANGED <<env, instance, lock, pc, fmt>>

\* The calls a thread may make, on inputs drawn from the given sets.
Step(t, ops, msgs, lines, lists, cfgs) ==
    \/ \E op \in ops, msg \in msgs : macro_leveled(t, op, msg)
    \/ \E obj \in msgs : macro_out(t, obj)
    \/ \E op \in {"prompt", "prompt_yn"} : macro_prompt(t, op, Header)
    \/ \E stdin \in lines : macro_prompt_read(t, stdin)
    \/ \E items \in lists, stdin \in lines, oc \in BOOLEAN :
          pick(t, Header, items, stdin, oc)
    \/ \E cfg \in cfgs : init(t, cfg)
    \/ nest_enter(t, Header)
    \/ nest_return(t)
    \/ nest_unwind(t)

\* With two threads every call is tried on one input: the interleavings, not
\* the inputs, are what this specification explores.
Next ==
    \E t \in Threads :
        Step(t, {"print"}, {Header}, {<<<<"2">>>>},
             {SubSeq(AllItems, 1, MaxItems)},
             {Config_default, with_json_output(Config_default)})

\* Two threads using the global instance.
Spec == Init /\ [][Next]_vars

NextSingle ==
    Step(1, LeveledOps, {<<"h", "i">>}, {<< >>, <<<<"2">>>>},
         {SubSeq(AllItems, 1, MaxItems)}, InitConfigs)

\* One thread using the global instance.
SpecSingle == Init /\ [][NextSingle]_vars

NextScopes ==
    \/ \E op \in LeveledOps : macro_leveled(1, op, <<"h", "i">>)
    \/ nest_enter(1, Header)
    \/ nest_return(1)
    \/ nest_unwind(1)

\* One thread that nests and prints through the instance get_instance()
\* created, and never calls init.
SpecScopes == Init /\ [][NextScopes]_vars

----------------------------------------------------------------------------
(* Claims on the formatter core, checked under SpecFmt.                    *)

\* C7: in JSON output mode print, detail, success, warn and error write
\* nothing, to stdout or to stderr, whatever the message, the indent_level,
\* the theme and the terminals, nested copies included.
C7_JsonModeIsSilent ==
    (last.op \in LeveledOps /\ last.self.cfg.output = "JSON")
        => last.res.writes = << >>

C7_Witness ==
    /\ last.op = "error"
    /\ last.self.cfg.output = "JSON"
    /\ last.self.indent_level >= 2
    /\ last.self.stderr_tty
    /\ last.self.cfg.theme["Error"] # None
    /\ last.res.writes = << >>

\* C8: out(value) writes the value once to stdout: as compact JSON whenever
\* stdout is not a terminal, whatever the mode; on a terminal as pretty JSON
\* in JSON mode, as a tree in Tree mode and as its display string in Text
\* mode; the unreachable arm is never taken.
C8_OutDispatch ==
    last.op = "out" =>
        LET self == last.self
            w == last.res.writes
        IN  /\ last.res.kind = "ok"
            /\ Len(w) = 1
            /\ w[1].stream = "stdout"
            /\ w[1].text = last.msg
            /\ ~self.stdout_tty => w[1].render = "json_compact"
            /\ (self.stdout_tty /\ self.cfg.output = "JSON")
                   => w[1].render = "json_pretty"
            /\ (self.stdout_tty /\ self.cfg.output = "Tree")
                   => w[1].render = "tree"
            /\ (self.stdout_tty /\ self.cfg.output = "Text")
                   => w[1].render = "display"

C8_Witness ==
    /\ last.op = "out"
    /\ last.self.cfg.output = "Tree"
    /\ ~last.self.stdout_tty
    /\ last.res.writes[1].render = "json_compact"

\* The stream a leveled operation writes to.
TargetStream(op) == IF op = "error" THEN "stderr" ELSE "stdout"

TargetIsTty(op, self) ==
    IF op = "error" THEN self.stderr_tty ELSE self.stdout_tty

\* The Style of a leveled operation: the theme's entry for its level, or the
\* built-in default.
StyleFor(op, self) ==
    LET level == CASE op = "print" -> "Normal"
                   [] op = "detail" -> "Detail"
                   [] op = "success" -> "Success"
                   [] op = "warn" -> "Warn"
                   [] op = "error" -> "Error"
        builtin == CASE op = "print" -> [prefix |-> <<<<"+">>>>, color |-> "White"]
                     [] op = "detail" -> [prefix |-> <<<<"+">>>>, color |-> "White"]
                     [] op = "success" -> [prefix |-> <<<<"v">>>>, color |-> "Green"]
                     [] op = "warn" -> [prefix |-> <<<<"!">>>>, color |-> "Yellow"]
                     [] op = "error" -> [prefix |-> <<<<"!">>>>, color |-> "Red"]
    IN  IF self.cfg.theme[level] = << >> THEN builtin
        ELSE self.cfg.theme[level][1]

\* What a leveled operation writes outside JSON mode, the text after the
\* indentation being given by lead(style).
Rendered(op, self, msg, lead(_)) ==
    IF TargetIsTty(op, self)
    THEN <<[stream |-> TargetStream(op), render |-> "line",
            text |-> Repeat(<<"|", " ", " ", " ">>, self.indent_level)
                         \o lead(StyleFor(op, self)) \o msg,
            color |-> StyleFor(op, self).color, nl |-> TRUE]>>
    ELSE IF op = "detail" THEN << >>
    ELSE <<[stream |-> TargetStream(op), render |-> "line", text |-> msg,
            color |-> "none", nl |-> TRUE]>>

\* The prefix and one space, and nothing for a Style without a prefix.
LeadAsClaimed(style) ==
    IF style.prefix = << >> THEN << >> ELSE style.prefix[1] \o <<" ">>

\* The prefix, if any, and in either case one space.
LeadAsCoded(style) ==
    IF style.prefix = << >> THEN <<" ">> ELSE style.prefix[1] \o <<" ">>

\* C9 as stated: on a terminal the line is indent_level indent markers, the
\* prefix and a space when the Style has a prefix and nothing when it has
\* none, then the message; off a terminal it is the raw message (nothing for
\* detail).
C9_RenderingAsClaimed ==
    (last.op \in LeveledOps /\ last.self.cfg.output # "JSON")
        => last.res.writes =
               Rendered(last.op, last.self, last.msg, LeadAsClaimed)

\* C9, amended: on a terminal the line is indent_level indent markers of 4
\* characters, then the prefix when the Style has one, then one space also
\* when the Style has no prefix, then the message, in the Style's colour;
\* off a terminal it is the raw message, uncoloured (nothing for detail).
C9_Rendering ==
    (last.op \in LeveledOps /\ last.self.cfg.output # "JSON")
        => /\ last.res.writes =
                  Rendered(last.op, last.self, last.msg, LeadAsCoded)
           /\ \A i \in 1..Len(last.res.writes) :
                  TargetIsTty(last.op, last.self) =>
                      Len(last.res.writes[i].text) =
                          4 * last.self.indent_level
                              + Len(LeadAsCoded(StyleFor(last.op, last.self)))
                              + Len(last.msg)

C9_Witness ==
    /\ last.op \in LeveledOps
    /\ last.self.cfg.output # "JSON"
    /\ TargetIsTty(last.op, last.self)
    /\ last.self.indent_level = 2
    /\ StyleFor(last.op, last.self).prefix = << >>
    /\ last.res.writes # << >>
    /\ last.res.writes[1].text =
           <<"|", " ", " ", " ", "|", " ", " ", " ", " ">> \o last.msg

----------------------------------------------------------------------------
(* Claims on the interactive operations, checked under SpecPrompt.         *)

InteractiveOps == {"prompt", "prompt_yn", "pick"}

\* C5: prompt, prompt_yn and pick return the unsupported error exactly when
\* the formatter's stdout is not a terminal: then without reading standard
\* input and without writing a prompt (a write left on the same line); on a terminal never, and pick goes
\* on to list the items and to read a selection.
C5_UnsupportedIffNotTty ==
    last.op \in InteractiveOps =>
        /\ last.res.kind = "unsupported" <=> ~last.self.stdout_tty
        /\ ~last.self.stdout_tty =>
               /\ last.res.reads = 0
               /\ \A i \in 1..Len(last.res.writes) : last.res.writes[i].nl
        /\ (last.self.stdout_tty /\ last.op = "pick") => last.res.reads >= 1

\* The 1-based positions of the lines of stdin that are integers in 1..n.
ValidPicks(stdin, n) ==
    {i \in 1..Len(stdin) :
        /\ parse_usize(trim(stdin[i])) # << >>
        /\ parse_usize(trim(stdin[i]))[1] \in 1..n}

FirstValidPick(stdin, n) ==
    CHOOSE i \in ValidPicks(stdin, n) : \A j \in ValidPicks(stdin, n) : i <= j

\* C6: on a terminal, for a non-empty item list and an input holding an
\* integer in 1..Len(items), pick returns items[k] for the first such integer
\* k, having read the lines up to it; no earlier line is surfaced as an error
\* or a crash.
C6_PickReturnsFirstValid ==
    (/\ last.op = "pick"
     /\ last.self.stdout_tty
     /\ last.arg.items # << >>
     /\ ValidPicks(last.arg.stdin, Len(last.arg.items)) # {})
        => LET at == FirstValidPick(last.arg.stdin, Len(last.arg.items))
               k == parse_usize(trim(last.arg.stdin[at]))[1]
           IN  /\ last.res.kind = "ok"
               /\ last.res.value = last.arg.items[k]
               /\ last.res.reads = at

----------------------------------------------------------------------------
(* Claims on the global instance.                                          *)

\* C1 (SpecSingle): with one calling thread, when a global nest() returns,
\* the indent_level of the shared instance is what it was when that call
\* began, whatever its body did: prints, init, further nest() calls.
C1_NestRestoresIndent ==
    last.op = "nest_return" => instance.indent_level = last.pre

C1_Witness ==
    /\ last.op = "nest_return"
    /\ Len(frames[1]) = 1
    /\ last.pre = 1
    /\ instance.indent_level = 1

\* C2 (Spec): once every nest() call of every thread has returned, none of
\* them having unwound and no init having run meanwhile, the indent_level of
\* the shared instance is what it was before the first of them began.
C2_ConcurrentNestingsIsolated ==
    (Quiescent /\ scope.clean) => instance.indent_level = scope.d

\* C3 (Spec): no thread holds the mutex while it is blocked in read_line.
C3_NoLockWhileReading ==
    \A t \in Threads : pc[t].at \in {"prompt", "prompt_yn"} => lock # t

\* C4 (SpecSingle): after a nest() whose body panicked, the shared instance
\* is the formatter saved when the call began.
C4_RestoredAfterPanic ==
    last.op = "nest_unwind" =>
        (instance = last.self /\ instance.indent_level = last.pre)

\* C10 (SpecScopes): with one calling thread and the shared instance at
\* indent_level d when its outermost nest() began, each nest() prints its
\* header at the level of the enclosing scope (d + k - 1 for the k-th open
\* call) and then leaves the instance one level deeper for its body; every
\* leveled print made while k calls are open is rendered at level d + k; and
\* when the outermost call has returned the instance is at level d again,
\* where the prints that follow are rendered.
C10_ScopeDepth ==
    /\ last.op = "nest" =>
           /\ last.pre = scope.d + Len(frames[last.t]) - 1
           /\ instance.indent_level = scope.d + Len(frames[last.t])
           /\ last.self.cfg.output # "JSON" =>
                  last.res.writes =
                      Rendered("print",
                               [last.self EXCEPT !.indent_level =
                                    scope.d + Len(frames[last.t]) - 1],
                               last.msg, LeadAsCoded)
    /\ (last.op \in LeveledOps /\ last.t # 0 /\ frames[last.t] # << >>) =>
           /\ last.self.indent_level = scope.d + Len(frames[last.t])
           /\ last.self.cfg.output # "JSON" =>
                  last.res.writes =
                      Rendered(last.op,
                               [last.self EXCEPT !.indent_level =
                                    scope.d + Len(frames[last.t])],
                               last.msg, LeadAsCoded)
    /\ (last.op = "nest_return" /\ Quiescent) =>
           instance.indent_level = scope.d
    /\ (last.op \in LeveledOps /\ last.t # 0 /\ Quiescent) =>
           (last.self.cfg.output # "JSON" =>
                last.res.writes =
                    Rendered(last.op,
                             [last.self EXCEPT !.indent_level = last.pre],
                             last.msg, LeadAsCoded))

\* indent_level and its two terminal flags.  An init() that completed while
\* the call was open, in the body or in another thread, is overwritten.
C12_RestoreOverwritesInit ==
    last.op = "nest_return" =>
        /\ instance = last.self
        /\ instance.indent_level = last.pre

\* A nest() has returned straight after an init() of the other thread that
\* installed another configuration at level 0 while the call was open at a
\* deeper level; the configuration and the level in the mutex are again those
\* of the entry.
C12_Witness ==
    /\ last.op = "nest_return"
    /\ last.arg.init # None
    /\ last.arg.init[1].by # last.t
    /\ last.arg.init[1].xmt.cfg # last.self.cfg
    /\ last.arg.init[1].xmt.indent_level # last.pre
    /\ instance.cfg = last.self.cfg
    /\ instance.indent_level = last.pre


=============================================================================
